---- MODULE Spec2Model ----
(***************************************************************************)
(* Model of linux_resource_audit-v04.py: the extract / transform / load    *)
(* pipeline run_audit and the pure functions it calls.                     *)
(*                                                                         *)
(* Number representation.  psutil reports percentages with one decimal     *)
(* place and the script rounds sizes to two decimal places, so             *)
(*   - a percentage p is held as the integer p * PctUnit  (tenths),        *)
(*   - a size of g GB is held as the integer g * GbUnit   (hundredths),    *)
(*   - a raw size read from the OS is held in units of 10^6 bytes.         *)
(* Python dicts keep insertion order; a dict is held as                    *)
(* [keys |-> sequence of keys in insertion order, data |-> key -> value].  *)
(* A value that may be None (a nullable column, an unset local) is held as *)
(* a sequence of length 0 or 1.  The lines get_critical_logs returns are   *)
(* not held: nothing after the query reads them but json.dump.             *)
(***************************************************************************)
EXTENDS Integers, Sequences, FiniteSets, TLC

VARIABLES
    pc,               \* position of run_audit
    fs,               \* the host: mount -> psutil.disk_usage result or Absent
    now,              \* the host clock read by datetime.now()
    timestamp,        \* run_audit local
    memory,           \* run_audit local
    disks,            \* run_audit local
    risk,             \* run_audit local
    recommendations,  \* run_audit local
    analysis,         \* run_audit local
    report,           \* run_audit local
    conn,             \* the sqlite3 connection of the running function
    db,               \* audit_history.db as committed on disk
    handles,          \* files this process holds open
    json_file,        \* audit_report.json
    csv_file,         \* audit_report.csv
    stdout,           \* lines printed by the VIEW section
    error             \* the exception that ended the run, if any

vars == <<pc, fs, now, timestamp, memory, disks, risk,
          recommendations, analysis, report, conn, db, handles,
          json_file, csv_file, stdout, error>>

(***************************************************************************)
(* Bounds of the model                                                     *)
(***************************************************************************)
MaxRuns == 2         \* invocations of the script explored
MaxMounts == 3       \* length of the mount list given to get_disk_info
MaxRiskLen == 2      \* length of a risk list given to generate_analysis

(***************************************************************************)
(* Units                                                                   *)
(***************************************************************************)
PctUnit == 10
GbUnit == 100

(***************************************************************************)
(* Configuration (module-level constants of the script)                    *)
(***************************************************************************)
THRESHOLDS_strict ==
    [mem_used_pct |-> 86, swap_used_pct |-> 60, disk_used_pct |-> 80]

THRESHOLDS ==
    [mem_used_pct |-> 85, swap_used_pct |-> 60, disk_used_pct |-> 80]

OUTPUT_JSON == "audit_report.json"
OUTPUT_CSV == "audit_report.csv"
DB_FILE == "audit_history.db"

DefaultMounts == <<"/", "/var", "/home">>

(***************************************************************************)
(* Helpers: sequences, ordered dicts, arithmetic                           *)
(***************************************************************************)
Range(s) == {s[i] : i \in DOMAIN s}

In(x, s) == \E i \in DOMAIN s : s[i] = x

EmptyDict == [keys |-> <<>>, data |-> [k \in {} |-> 0]]

\* d[k] = v
DictSet(d, k, v) ==
    [keys |-> IF In(k, d.keys) THEN d.keys ELSE Append(d.keys, k),
     data |-> [x \in (DOMAIN d.data) \cup {k} |->
                  IF x = k THEN v ELSE d.data[x]]]

\* math.ceil(n / d) for d > 0
ceil(n, d) == -((-n) \div d)

\* round(raw / 1e9, 2) of a raw size in units of 10^6 bytes, in hundredths of
\* a GB (readings are taken off the rounding ties)
round_gb(raw) == (raw * GbUnit + 500) \div 1000

\* pct >= threshold, pct in tenths and threshold in percent
AtLeast(pct, threshold) == pct >= threshold * PctUnit

(***************************************************************************)
(* EXTRACT                                                                 *)
(***************************************************************************)
Absent == [absent |-> TRUE]

MountNotFound == [error |-> "mount not found"]

\* get_memory_info on the readings (mem, swap) of psutil
get_memory_info(mem, swap) ==
    [mem_total_gb  |-> round_gb(mem.total),
     mem_used_gb   |-> round_gb(mem.used),
     mem_used_pct  |-> mem.percent,
     swap_total_gb |-> round_gb(swap.total),
     swap_used_pct |-> swap.percent]

MemKeys == <<"mem_total_gb", "mem_used_gb", "mem_used_pct",
             "swap_total_gb", "swap_used_pct">>

\* one iteration of the loop of get_disk_info: try / except FileNotFoundError
disk_entry(host, mount) ==
    IF host[mount] = Absent
    THEN MountNotFound
    ELSE [total_gb |-> round_gb(host[mount].total),
          used_gb  |-> round_gb(host[mount].used),
          used_pct |-> host[mount].percent]

RECURSIVE get_disk_info_from(_, _, _, _)
get_disk_info_from(host, mounts, i, acc) ==
    IF i > Len(mounts)
    THEN acc
    ELSE get_disk_info_from(host, mounts, i + 1,
                            DictSet(acc, mounts[i], disk_entry(host, mounts[i])))

get_disk_info(host, mounts) == get_disk_info_from(host, mounts, 1, EmptyDict)

(***************************************************************************)
(* TRANSFORM                                                               *)
(***************************************************************************)
DiskTag(mount) == "DISK_CRITICAL:" \o mount

RECURSIVE disk_alerts(_, _)
disk_alerts(dk, i) ==
    IF i > Len(dk.keys)
    THEN <<>>
    ELSE LET mount == dk.keys[i]
             data  == dk.data[mount]
         IN  (IF "used_pct" \in DOMAIN data
                 /\ AtLeast(data.used_pct, THRESHOLDS.disk_used_pct)
              THEN <<DiskTag(mount)>>
              ELSE <<>>)
             \o disk_alerts(dk, i + 1)

classify_risk_empty(mem, dk) ==
    (IF AtLeast(mem.mem_used_pct, THRESHOLDS.mem_used_pct)
     THEN <<"RAM_CRITICAL">> ELSE <<>>)
    \o (IF AtLeast(mem.swap_used_pct, THRESHOLDS.swap_used_pct)
        THEN <<"SWAP_CRITICAL">> ELSE <<>>)
    \o disk_alerts(dk, 1)

classify_risk_swap_first(mem, dk) ==
    LET alerts ==
            (IF AtLeast(mem.swap_used_pct, THRESHOLDS.swap_used_pct)
             THEN <<"SWAP_CRITICAL">> ELSE <<>>)
            \o disk_alerts(dk, 1)
            \o (IF AtLeast(mem.mem_used_pct, THRESHOLDS.mem_used_pct)
                THEN <<"RAM_CRITICAL">> ELSE <<>>)
    IN  IF alerts # <<>> THEN alerts ELSE <<"OK">>

classify_risk(mem, dk) ==
    LET alerts ==
            (IF AtLeast(mem.mem_used_pct, THRESHOLDS.mem_used_pct)
             THEN <<"RAM_CRITICAL">> ELSE <<>>)
            \o (IF AtLeast(mem.swap_used_pct, THRESHOLDS.swap_used_pct)
                THEN <<"SWAP_CRITICAL">> ELSE <<>>)
            \o disk_alerts(dk, 1)
    IN  IF alerts # <<>> THEN alerts ELSE <<"OK">>

RECURSIVE disk_reco_from_all(_, _, _)
disk_reco_from_all(dk, i, acc) ==
    IF i > Len(dk.keys)
    THEN acc
    ELSE LET mount == dk.keys[i]
             data  == dk.data[mount]
         IN  disk_reco_from_all(dk, i + 1,
                 IF "used_gb" \in DOMAIN data
                 THEN DictSet(acc, mount,
                          [current_total_gb     |-> data.total_gb,
                           recommended_total_gb |-> ceil(data.used_gb * 7, 5 * GbUnit)])
                 ELSE DictSet(acc, mount,
                          [current_total_gb     |-> 0,
                           recommended_total_gb |-> 0]))

RECURSIVE disk_reco_from(_, _, _)
disk_reco_from(dk, i, acc) ==
    IF i > Len(dk.keys)
    THEN acc
    ELSE LET mount == dk.keys[i]
             data  == dk.data[mount]
         IN  disk_reco_from(dk, i + 1,
                 IF "used_gb" \in DOMAIN data
                 THEN DictSet(acc, mount,
                          [current_total_gb     |-> data.total_gb,
                           recommended_total_gb |-> ceil(data.used_gb * 7, 5 * GbUnit)])
                 ELSE acc)

journald_limits ==
    [SystemMaxUse |-> "500M", SystemKeepFree |-> "1G",
     RuntimeMaxUse |-> "200M", MaxFileSec |-> "7day"]

recommend_resources_85(mem, dk) ==
    [ram_gb_recommended |->
         IF AtLeast(mem.mem_used_pct, THRESHOLDS.mem_used_pct)
         THEN ceil(mem.mem_used_gb * 3, 2 * GbUnit)
         ELSE ceil(mem.mem_total_gb, GbUnit),
     disk_recommendations |-> disk_reco_from(dk, 1, EmptyDict),
     journald_limits |-> journald_limits]

recommend_resources(mem, dk) ==
    [ram_gb_recommended |->
         IF AtLeast(mem.mem_used_pct, 80)
         THEN ceil(mem.mem_used_gb * 3, 2 * GbUnit)
         ELSE ceil(mem.mem_total_gb, GbUnit),
     disk_recommendations |-> disk_reco_from(dk, 1, EmptyDict),
     journald_limits |-> journald_limits]

MemorySentence ==
    "Pressão de memória detectada. O sistema opera próximo ao limite, "
    \o "com risco de congelamentos e latência elevada."

DiskSentence(mount) ==
    "A partição " \o mount \o " está acima de 80% de uso, o que pode causar "
    \o "falhas de escrita, travamentos de serviços e degradação geral."

FallbackSentence ==
    "O sistema opera dentro de parâmetros aceitáveis, sem indícios de "
    \o "quase travamento no período analisado."

RECURSIVE disk_analysis(_, _)
disk_analysis(dk, i) ==
    IF i > Len(dk.keys)
    THEN <<>>
    ELSE LET mount == dk.keys[i]
             data  == dk.data[mount]
         IN  (IF "used_pct" \in DOMAIN data /\ AtLeast(data.used_pct, 80)
              THEN <<DiskSentence(mount)>>
              ELSE <<>>)
             \o disk_analysis(dk, i + 1)

RECURSIVE disk_analysis_above(_, _)
disk_analysis_above(dk, i) ==
    IF i > Len(dk.keys)
    THEN <<>>
    ELSE LET mount == dk.keys[i]
             data  == dk.data[mount]
         IN  (IF "used_pct" \in DOMAIN data /\ data.used_pct > 80 * PctUnit
              THEN <<DiskSentence(mount)>>
              ELSE <<>>)
             \o disk_analysis_above(dk, i + 1)

generate_analysis_above(rk, mem, dk) ==
    LET lines ==
            (IF In("RAM_CRITICAL", rk) \/ In("SWAP_CRITICAL", rk)
             THEN <<MemorySentence>> ELSE <<>>)
            \o disk_analysis_above(dk, 1)
    IN  IF lines = <<>> THEN <<FallbackSentence>> ELSE lines

generate_analysis_trailer(rk, mem, dk) ==
    LET lines ==
            (IF In("RAM_CRITICAL", rk) \/ In("SWAP_CRITICAL", rk)
             THEN <<MemorySentence>> ELSE <<>>)
            \o disk_analysis(dk, 1)
    IN  IF In("OK", rk) \/ lines = <<>>
        THEN lines \o <<FallbackSentence>> ELSE lines

generate_analysis(rk, mem, dk) ==
    LET lines ==
            (IF In("RAM_CRITICAL", rk) \/ In("SWAP_CRITICAL", rk)
             THEN <<MemorySentence>> ELSE <<>>)
            \o disk_analysis(dk, 1)
    IN  IF lines = <<>> THEN <<FallbackSentence>> ELSE lines

(***************************************************************************)
(* LOAD                                                                    *)
(***************************************************************************)
None == <<>>

Some(v) == <<v>>

\* d.get(k, {}).get("used_pct")
get_used_pct(dk, k) ==
    IF In(k, dk.keys) /\ "used_pct" \in DOMAIN dk.data[k]
    THEN Some(dk.data[k].used_pct)
    ELSE None

RECURSIVE join_spaced(_, _)
join_spaced(sep, tags) ==
    IF tags = <<>> THEN ""
    ELSE IF Len(tags) = 1 THEN tags[1]
    ELSE tags[1] \o sep \o " " \o join_spaced(sep, Tail(tags))

\* sep.join(tags)
RECURSIVE join(_, _)
join(sep, tags) ==
    IF tags = <<>> THEN ""
    ELSE IF Len(tags) = 1 THEN tags[1]
    ELSE tags[1] \o sep \o join(sep, Tail(tags))

\* the row bound to the INSERT of save_sqlite; id is AUTOINCREMENT
audit_row(rep, id) ==
    [id            |-> id,
     timestamp     |-> rep.timestamp,
     ram_used_pct  |-> rep.memory.mem_used_pct,
     swap_used_pct |-> rep.memory.swap_used_pct,
     ram_total_gb  |-> rep.memory.mem_total_gb,
     disk_root_pct |-> get_used_pct(rep.disks, "/"),
     disk_var_pct  |-> get_used_pct(rep.disks, "/var"),
     disk_home_pct |-> get_used_pct(rep.disks, "/home"),
     risk_level    |-> join(",", rep.risk_level)]

RECURSIVE csv_disk_rows(_, _)
csv_disk_rows(rep, i) ==
    IF i > Len(rep.disks.keys)
    THEN <<>>
    ELSE LET mount == rep.disks.keys[i]
             data  == rep.disks.data[mount]
         IN  (IF "used_pct" \in DOMAIN data
              THEN <<[timestamp |-> rep.timestamp,
                      metric    |-> "disk_used_pct:" \o mount,
                      value     |-> data.used_pct]>>
              ELSE <<>>)
             \o csv_disk_rows(rep, i + 1)

CsvHeader == <<"timestamp", "metric", "value">>

\* the data rows save_csv writes after the header
csv_rows(rep) ==
    [i \in 1..Len(MemKeys) |->
        [timestamp |-> rep.timestamp,
         metric    |-> MemKeys[i],
         value     |-> rep.memory[MemKeys[i]]]]
    \o csv_disk_rows(rep, 1)

(***************************************************************************)
(* VIEW                                                                    *)
(***************************************************************************)
color_by_pct(pct) ==
    IF AtLeast(pct, 90) THEN "RED"
    ELSE IF AtLeast(pct, 80) THEN "ORANGE"
    ELSE IF AtLeast(pct, 70) THEN "YELLOW"
    ELSE "GREEN"

\* "CRITICAL" in label, for the labels classify_risk produces
color_risk(label) == IF label = "OK" THEN "GREEN" ELSE "RED"

\* the loop over disks.items() of the VIEW section; the lookup
\* recommendations["disk_recommendations"][mount] raises KeyError on a miss
RECURSIVE view_disks(_, _, _)
view_disks(dk, reco, i) ==
    IF i > Len(dk.keys)
    THEN [lines |-> <<>>, raised |-> FALSE]
    ELSE LET mount == dk.keys[i]
             data  == dk.data[mount]
         IN  IF "used_pct" \notin DOMAIN data
             THEN view_disks(dk, reco, i + 1)
             ELSE IF ~In(mount, reco.disk_recommendations.keys)
             THEN [lines |-> <<[section |-> "Disco", mount |-> mount,
                               color |-> color_by_pct(data.used_pct)]>>,
                   raised |-> TRUE]
             ELSE LET rest == view_disks(dk, reco, i + 1)
                  IN  [lines |->
                          <<[section |-> "Disco", mount |-> mount,
                             color |-> color_by_pct(data.used_pct)],
                            [section |-> "Disco:recomendado", mount |-> mount,
                             gb |-> reco.disk_recommendations.data[mount]
                                        .recommended_total_gb]>>
                          \o rest.lines,
                       raised |-> rest.raised]

view_head(rk, mem, reco) ==
    [i \in 1..Len(rk) |->
        [section |-> "Risco", text |-> rk[i], color |-> color_risk(rk[i])]]
    \o <<[section |-> "RAM", color |-> color_by_pct(mem.mem_used_pct)],
         [section |-> "Swap", color |-> color_by_pct(mem.swap_used_pct),
          text |-> IF AtLeast(mem.swap_used_pct, 60) THEN "CRÍTICO" ELSE "OK"],
         [section |-> "RAM recomendada", gb |-> reco.ram_gb_recommended]>>

view_tail(an) ==
    <<[section |-> "Logs (journald)"]>>
    \o [i \in 1..Len(an) |-> [section |-> "Análise", text |-> an[i]]]
    \o <<[section |-> "Relatório salvo"]>>

(***************************************************************************)
(* The host: what psutil and the clock can report.  The mount table and   *)
(* the disk usage are those of the host and stay as they are from one      *)
(* invocation to the next; memory and swap are read afresh by every run;   *)
(* the clock has advanced whenever the script is invoked again, so the     *)
(* timestamps of two runs differ.                                          *)
(***************************************************************************)
Mounts == Range(DefaultMounts)

\* psutil.disk_usage results (sizes in 10^6 bytes, percent in tenths)
DiskReadings ==
    {[total |-> 100000, used |-> 79904, percent |-> 799],
     [total |-> 100000, used |-> 80001, percent |-> 800],
     [total |-> 50000,  used |-> 47512, percent |-> 950]}

Hosts == [Mounts -> DiskReadings \cup {Absent}]

\* psutil.virtual_memory / psutil.swap_memory results
MemSizes ==
    {[total |-> 15674, used |-> 5331], [total |-> 16000, used |-> 8000]}

MemReadings ==
    {[total |-> sz.total, used |-> sz.used, percent |-> p] :
        sz \in MemSizes, p \in {799, 800, 849, 850, 1000}}

SwapReadings ==
    {[total |-> 2048, percent |-> p] : p \in {599, 600}}

\* the readings the host shows while the script runs repeatedly
RunMemReadings ==
    {[total |-> 15674, used |-> 5331, percent |-> 412],
     [total |-> 16000, used |-> 14408, percent |-> 901]}

RunSwapReading(mem) ==
    [total |-> 2048, percent |-> IF mem.percent >= 900 THEN 700 ELSE 50]

(***************************************************************************)
(* State of the sinks and of the process                                   *)
(***************************************************************************)
NoConn == [state |-> "none", in_transaction |-> FALSE, pending |-> <<>>]

NoError == [exc |-> "none", at |-> "none"]

NoFile == [exists |-> FALSE, complete |-> FALSE, doc |-> None, rows |-> <<>>]

NoDb == [exists |-> FALSE, tables |-> {}, audits |-> <<>>, seq |-> 0]

Raise(exc, at) ==
    /\ pc' = "aborted"
    /\ error' = [exc |-> exc, at |-> at]

Locals == <<timestamp, memory, disks, risk, recommendations, analysis, report>>

Sinks == <<db, json_file, csv_file>>

Init ==
    /\ pc = "start"
    /\ fs \in Hosts
    /\ now = 1
    /\ timestamp = None
    /\ memory = None
    /\ disks = None
    /\ risk = None
    /\ recommendations = None
    /\ analysis = None
    /\ report = None
    /\ conn = NoConn
    /\ db = NoDb
    /\ handles = {}
    /\ json_file = NoFile
    /\ csv_file = NoFile
    /\ stdout = <<>>
    /\ error = NoError

(***************************************************************************)
(* run_audit, step by step                                                 *)
(***************************************************************************)
\* timestamp, get_memory_info(), get_disk_info(), get_critical_logs()
Extract ==
    /\ pc = "start"
    /\ timestamp' = now
    /\ \E mem \in RunMemReadings :
           memory' = get_memory_info(mem, RunSwapReading(mem))
    /\ disks' = get_disk_info(fs, DefaultMounts)
    /\ \/ /\ pc' = "classify"
          /\ UNCHANGED error
       \/ Raise("FileNotFoundError", "get_critical_logs")
    /\ UNCHANGED <<fs, now, risk, recommendations, analysis, report, conn, db,
                   handles, json_file, csv_file, stdout>>

Classify ==
    /\ pc = "classify"
    /\ risk' = classify_risk(memory, disks)
    /\ pc' = "recommend"
    /\ UNCHANGED <<fs, now, timestamp, memory, disks, recommendations, analysis,
                   report, conn, db, handles, json_file, csv_file, stdout, error>>

Recommend ==
    /\ pc = "recommend"
    /\ recommendations' = recommend_resources(memory, disks)
    /\ pc' = "analyse"
    /\ UNCHANGED <<fs, now, timestamp, memory, disks, risk, analysis,
                   report, conn, db, handles, json_file, csv_file, stdout, error>>

Analyse ==
    /\ pc = "analyse"
    /\ analysis' = generate_analysis(risk, memory, disks)
    /\ pc' = "build_report"
    /\ UNCHANGED <<fs, now, timestamp, memory, disks, risk, recommendations,
                   report, conn, db, handles, json_file, csv_file, stdout, error>>

BuildReport ==
    /\ pc = "build_report"
    /\ report' = [timestamp       |-> timestamp,
                  risk_level      |-> risk,
                  analysis        |-> analysis,
                  memory          |-> memory,
                  disks           |-> disks,
                  recommendations |-> recommendations]
    /\ pc' = "init_db"
    /\ UNCHANGED <<fs, now, timestamp, memory, disks, risk, recommendations,
                   analysis, conn, db, handles, json_file, csv_file, stdout, error>>

\* init_db: sqlite3.connect(DB_FILE) creates the file when it is missing
InitDbConnect ==
    /\ pc = "init_db"
    /\ \/ /\ conn' = [state |-> "open", in_transaction |-> FALSE, pending |-> <<>>]
          /\ db' = [db EXCEPT !.exists = TRUE]
          /\ pc' = "init_db_create"
          /\ UNCHANGED error
       \/ /\ Raise("sqlite3.OperationalError", "init_db")
          /\ UNCHANGED <<conn, db>>
    /\ UNCHANGED <<fs, now, Locals, handles, json_file, csv_file, stdout>>

\* init_db: CREATE TABLE IF NOT EXISTS (the sqlite3 module opens no implicit
\* transaction for DDL, so commit() has nothing to do), commit, close
InitDbCreate ==
    /\ pc = "init_db_create"
    /\ \/ /\ db' = [db EXCEPT !.tables = @ \cup {"audits"}]
          /\ conn' = [conn EXCEPT !.state = "closed"]
          /\ pc' = "save_sqlite"
          /\ UNCHANGED error
       \/ /\ Raise("sqlite3.OperationalError", "init_db")
          /\ UNCHANGED <<conn, db>>
    /\ UNCHANGED <<fs, now, Locals, handles, json_file, csv_file, stdout>>

SaveSqliteConnect ==
    /\ pc = "save_sqlite"
    /\ \/ /\ conn' = [state |-> "open", in_transaction |-> FALSE, pending |-> <<>>]
          /\ pc' = "save_sqlite_insert"
          /\ UNCHANGED error
       \/ /\ Raise("sqlite3.OperationalError", "save_sqlite")
          /\ UNCHANGED conn
    /\ UNCHANGED <<fs, now, Locals, db, handles, json_file, csv_file, stdout>>

\* save_sqlite: cur.execute(INSERT ...) begins a transaction implicitly
SaveSqliteInsert ==
    /\ pc = "save_sqlite_insert"
    /\ \/ /\ "audits" \in db.tables
          /\ conn' = [conn EXCEPT !.in_transaction = TRUE,
                                  !.pending = <<audit_row(report, db.seq + 1)>>]
          /\ pc' = "save_sqlite_commit"
          /\ UNCHANGED error
       \/ /\ \E began \in BOOLEAN : conn' = [conn EXCEPT !.in_transaction = began]
          /\ Raise("sqlite3.OperationalError", "save_sqlite")
    /\ UNCHANGED <<fs, now, Locals, db, handles, json_file, csv_file, stdout>>

SaveSqliteCloseUncommitted ==
    /\ pc = "save_sqlite_commit"
    /\ \/ /\ conn' = [state |-> "closed", in_transaction |-> FALSE, pending |-> <<>>]
          /\ pc' = "save_json"
          /\ UNCHANGED <<db, error>>
       \/ /\ Raise("sqlite3.OperationalError", "save_sqlite")
          /\ UNCHANGED <<conn, db>>
    /\ UNCHANGED <<fs, now, Locals, handles, json_file, csv_file, stdout>>

\* save_sqlite: conn.commit(); conn.close()
SaveSqliteCommit ==
    /\ pc = "save_sqlite_commit"
    /\ \/ /\ db' = [db EXCEPT !.audits = @ \o conn.pending,
                              !.seq = @ + Len(conn.pending)]
          /\ conn' = [state |-> "closed", in_transaction |-> FALSE, pending |-> <<>>]
          /\ pc' = "save_json"
          /\ UNCHANGED error
       \/ /\ Raise("sqlite3.OperationalError", "save_sqlite")
          /\ UNCHANGED <<conn, db>>
    /\ UNCHANGED <<fs, now, Locals, handles, json_file, csv_file, stdout>>

\* save_json: open(OUTPUT_JSON, "w") truncates the file
SaveJsonOpen ==
    /\ pc = "save_json"
    /\ \/ /\ handles' = handles \cup {OUTPUT_JSON}
          /\ json_file' = [NoFile EXCEPT !.exists = TRUE]
          /\ pc' = "save_json_dump"
          /\ UNCHANGED error
       \/ /\ Raise("OSError", "save_json")
          /\ UNCHANGED <<handles, json_file>>
    /\ UNCHANGED <<fs, now, Locals, conn, db, csv_file, stdout>>

\* save_json: json.dump inside the with block; the block closes the file on
\* both exits
SaveJsonDump ==
    /\ pc = "save_json_dump"
    /\ handles' = handles \ {OUTPUT_JSON}
    /\ \/ /\ json_file' = [json_file EXCEPT !.complete = TRUE, !.doc = Some(report)]
          /\ pc' = "save_csv"
          /\ UNCHANGED error
       \/ /\ json_file' = [json_file EXCEPT !.doc = Some(report)]
          /\ Raise("OSError", "save_json")
    /\ UNCHANGED <<fs, now, Locals, conn, db, csv_file, stdout>>

SaveCsvOpen ==
    /\ pc = "save_csv"
    /\ \/ /\ handles' = handles \cup {OUTPUT_CSV}
          /\ csv_file' = [NoFile EXCEPT !.exists = TRUE]
          /\ pc' = "save_csv_write"
          /\ UNCHANGED error
       \/ /\ Raise("OSError", "save_csv")
          /\ UNCHANGED <<handles, csv_file>>
    /\ UNCHANGED <<fs, now, Locals, conn, db, json_file, stdout>>

\* save_csv: the header and the rows inside the with block; a failing write
\* leaves some prefix of the rows in the file
SaveCsvWrite ==
    /\ pc = "save_csv_write"
    /\ handles' = handles \ {OUTPUT_CSV}
    /\ \/ /\ csv_file' = [csv_file EXCEPT !.complete = TRUE,
                                          !.doc = Some(CsvHeader),
                                          !.rows = csv_rows(report)]
          /\ pc' = "view"
          /\ UNCHANGED error
       \/ /\ \E n \in 0..(Len(csv_rows(report)) - 1) :
                 csv_file' = [csv_file EXCEPT !.doc = Some(CsvHeader),
                                              !.rows = SubSeq(csv_rows(report), 1, n)]
          /\ Raise("OSError", "save_csv")
       \/ /\ UNCHANGED csv_file
          /\ Raise("OSError", "save_csv")
    /\ UNCHANGED <<fs, now, Locals, conn, db, json_file, stdout>>

\* the VIEW section of run_audit
View ==
    /\ pc = "view"
    /\ LET body == view_disks(disks, recommendations, 1)
           head == view_head(risk, memory, recommendations)
       IN  IF body.raised
           THEN /\ stdout' = head \o body.lines
                /\ Raise("KeyError", "run_audit")
           ELSE /\ stdout' = head \o body.lines \o view_tail(analysis)
                /\ pc' = "done"
                /\ UNCHANGED error
    /\ UNCHANGED <<fs, now, Locals, conn, db, handles, json_file, csv_file>>

\* the script is invoked again: a new process, a later clock; the previous
\* process is gone, and with it its connection and any uncommitted transaction
NextRun ==
    /\ pc \in {"done", "aborted"}
    /\ now < MaxRuns
    /\ now' = now + 1
    /\ pc' = "start"
    /\ timestamp' = None
    /\ memory' = None
    /\ disks' = None
    /\ risk' = None
    /\ recommendations' = None
    /\ analysis' = None
    /\ report' = None
    /\ conn' = NoConn
    /\ handles' = {}
    /\ stdout' = <<>>
    /\ error' = NoError
    /\ UNCHANGED <<fs, db, json_file, csv_file>>

Next ==
    \/ Extract
    \/ Classify
    \/ Recommend
    \/ Analyse
    \/ BuildReport
    \/ InitDbConnect
    \/ InitDbCreate
    \/ SaveSqliteConnect
    \/ SaveSqliteInsert
    \/ SaveSqliteCommit
    \/ SaveJsonOpen
    \/ SaveJsonDump
    \/ SaveCsvOpen
    \/ SaveCsvWrite
    \/ View
    \/ NextRun

Spec == Init /\ [][Next]_vars

(***************************************************************************)
(* The pure functions on their own: classify_risk, recommend_resources and *)
(* generate_analysis applied to every snapshot of the bounded input sets,  *)
(* the mount list of get_disk_info included                                *)
(***************************************************************************)
SeqsUpTo(S, n) == UNION {[1..k -> S] : k \in 0..n}

MountLists == SeqsUpTo(Mounts, MaxMounts)

RiskVocabulary == {"OK", "RAM_CRITICAL", "SWAP_CRITICAL", DiskTag("/var")}

RiskLists == SeqsUpTo(RiskVocabulary, MaxRiskLen)

InitFn ==
    /\ pc = "classify"
    /\ \E host \in Hosts, mounts \in MountLists :
          /\ \A m \in Mounts \ Range(mounts) : host[m] = Absent
          /\ fs = host
          /\ disks = get_disk_info(host, mounts)
    /\ \E mem \in MemReadings, swap \in SwapReadings :
          memory = get_memory_info(mem, swap)
    /\ now = 1
    /\ timestamp = None
    /\ risk = None
    /\ recommendations = None
    /\ analysis = None
    /\ report = None
    /\ conn = NoConn
    /\ db = NoDb
    /\ handles = {}
    /\ json_file = NoFile
    /\ csv_file = NoFile
    /\ stdout = <<>>
    /\ error = NoError

\* generate_analysis on a risk list of the caller's choosing
AnalyseGiven ==
    /\ pc = "classify"
    /\ \E rk \in RiskLists :
          /\ risk' = rk
          /\ analysis' = generate_analysis(rk, memory, disks)
    /\ pc' = "analysed"
    /\ UNCHANGED <<fs, now, timestamp, memory, disks, recommendations,
                   report, conn, db, handles, json_file, csv_file, stdout, error>>

NextFn ==
    \/ Classify
    \/ Recommend
    \/ Analyse
    \/ AnalyseGiven

SpecFn == InitFn /\ [][NextFn]_vars

(***************************************************************************)
(* What the claims say, read off the snapshot and not off the functions    *)
(***************************************************************************)
\* risk holds classify_risk(memory, disks)
Classified == pc \in {"recommend", "analyse", "build_report"}

\* recommendations holds recommend_resources(memory, disks)
Recommended == pc \in {"analyse", "build_report"}

RamOver == memory.mem_used_pct >= 85 * PctUnit

SwapOver == memory.swap_used_pct >= 60 * PctUnit

DiskOver(m) ==
    /\ In(m, disks.keys)
    /\ disks.data[m] # MountNotFound
    /\ disks.data[m].used_pct >= 80 * PctUnit

IsDiskTag(t) == t \notin {"OK", "RAM_CRITICAL", "SWAP_CRITICAL"}

\* the mounts over the disk threshold, in snapshot order
OverMounts == SelectSeq(disks.keys, DiskOver)

ExpectedDiskTags == [i \in 1..Len(OverMounts) |-> DiskTag(OverMounts[i])]

ExpectedDiskSentences == [i \in 1..Len(OverMounts) |-> DiskSentence(OverMounts[i])]

HasErrorEntry == \E i \in DOMAIN disks.keys : disks.data[disks.keys[i]] = MountNotFound

HasUsageEntry == \E i \in DOMAIN disks.keys : disks.data[disks.keys[i]] # MountNotFound

\* C1: classify_risk never returns an empty list; it returns exactly ["OK"]
\* if and only if no RAM, swap or disk tag applies; "OK" never appears
\* together with another tag.
C1_NonEmptyOkIffNothingApplies ==
    Classified =>
        /\ Len(risk) >= 1
        /\ (risk = <<"OK">>) <=> (~RamOver /\ ~SwapOver /\ OverMounts = <<>>)
        /\ In("OK", risk) => risk = <<"OK">>

C1_Witness ==
    /\ Classified
    /\ risk = <<"OK">>
    /\ HasErrorEntry
    /\ HasUsageEntry

\* C2: RAM_CRITICAL is in the result exactly when mem_used_pct >= 85, whatever
\* the swap value and the disk snapshot are.
C2_RamCriticalAt85 ==
    Classified => (In("RAM_CRITICAL", risk) <=> RamOver)

C2_Witness ==
    /\ Classified
    /\ memory.mem_used_pct = 85 * PctUnit
    /\ In("RAM_CRITICAL", risk)
    /\ ~SwapOver
    /\ OverMounts # <<>>

\* C3: the disk tags of the result are DISK_CRITICAL:<mount> once for each
\* non-error mount with used_pct >= 80 and for no other mount, in snapshot
\* order; they come after RAM_CRITICAL and SWAP_CRITICAL, and RAM_CRITICAL
\* comes before SWAP_CRITICAL.
C3_DiskTagsOnceInOrder ==
    Classified =>
        /\ SelectSeq(risk, IsDiskTag) = ExpectedDiskTags
        /\ \A i, j \in DOMAIN risk :
              i < j =>
                 /\ ~(IsDiskTag(risk[i]) /\ ~IsDiskTag(risk[j]))
                 /\ ~(risk[i] = "SWAP_CRITICAL" /\ risk[j] = "RAM_CRITICAL")

C3_Witness ==
    /\ Classified
    /\ HasErrorEntry
    /\ Len(OverMounts) = 2
    /\ Len(risk) = 4

\* C4: the RAM target is ceil(mem_used_gb * 1.5) when mem_used_pct >= 80 and
\* ceil(mem_total_gb) below 80; for mem_used_pct in [80, 85) the scaled target
\* is produced although RAM_CRITICAL is not.
C4_RamTargetBranchAt80 ==
    Recommended =>
        LET r == recommendations.ram_gb_recommended
            u == memory.mem_used_gb
            t == memory.mem_total_gb
        IN  /\ memory.mem_used_pct >= 80 * PctUnit =>
                 /\ 2 * GbUnit * r >= 3 * u
                 /\ 2 * GbUnit * (r - 1) < 3 * u
            /\ memory.mem_used_pct < 80 * PctUnit =>
                 /\ GbUnit * r >= t
                 /\ GbUnit * (r - 1) < t
            /\ (memory.mem_used_pct >= 80 * PctUnit /\ memory.mem_used_pct < 85 * PctUnit)
                  => ~In("RAM_CRITICAL", risk)

C4_Witness ==
    /\ Recommended
    /\ memory.mem_used_pct = 80 * PctUnit
    /\ memory.mem_used_gb = 533
    /\ memory.mem_total_gb = 1567
    /\ recommendations.ram_gb_recommended = 8
    /\ ~In("RAM_CRITICAL", risk)

\* C9: generate_analysis returns a non-empty list: the memory sentence first
\* if RAM_CRITICAL or SWAP_CRITICAL is in risk, then one disk sentence per
\* non-error mount with used_pct >= 80 in snapshot order; the fallback
\* sentence appears if and only if neither rule fired, and is then alone.
C9_AnalysisOrderAndFallback ==
    pc \in {"analysed", "build_report"} =>
        LET rule1 == In("RAM_CRITICAL", risk) \/ In("SWAP_CRITICAL", risk)
            fired == (IF rule1 THEN <<MemorySentence>> ELSE <<>>)
                         \o ExpectedDiskSentences
        IN  /\ Len(analysis) >= 1
            /\ fired # <<>> => analysis = fired
            /\ In(FallbackSentence, analysis) <=> fired = <<>>
            /\ In(FallbackSentence, analysis) => analysis = <<FallbackSentence>>

C9_Witness ==
    /\ pc = "analysed"
    /\ risk = <<"OK", "SWAP_CRITICAL">>
    /\ ~SwapOver
    /\ HasErrorEntry
    /\ Len(analysis) = 3

\* C10: within a run the analysis is the single fallback sentence if and
\* only if risk is ["OK"], and it has the disk sentence of a mount if and
\* only if risk has DISK_CRITICAL:<that mount>.
C10_ClassifierNarratorAgree ==
    pc = "build_report" =>
        /\ (analysis = <<FallbackSentence>>) <=> (risk = <<"OK">>)
        /\ \A m \in Mounts :
              In(DiskSentence(m), analysis) <=> In(DiskTag(m), risk)

C10_Witness ==
    /\ pc = "build_report"
    /\ \E m \in Mounts :
          /\ In(m, disks.keys)
          /\ disks.data[m] # MountNotFound
          /\ disks.data[m].used_pct = 80 * PctUnit
          /\ In(DiskSentence(m), analysis)
          /\ In(DiskTag(m), risk)
    /\ \E m \in Mounts :
          /\ In(m, disks.keys)
          /\ disks.data[m] # MountNotFound
          /\ disks.data[m].used_pct < 80 * PctUnit
          /\ ~In(DiskSentence(m), analysis)

(***************************************************************************)
(* The pipeline: what the claims say about a run and its sinks             *)
(***************************************************************************)
\* the run was ended by a failing relational, JSON or CSV step
PersistenceAbort ==
    /\ pc = "aborted"
    /\ error.at \in {"init_db", "save_sqlite", "save_json", "save_csv"}

\* report is built
ReportBuilt ==
    \/ pc \in {"init_db", "init_db_create", "save_sqlite", "save_sqlite_insert",
               "save_sqlite_commit", "save_json", "save_json_dump", "save_csv",
               "save_csv_write", "view", "done"}
    \/ pc = "aborted" /\ error.at # "get_critical_logs"

\* save_sqlite has returned in this run
Committed ==
    \/ pc \in {"save_json", "save_json_dump", "save_csv", "save_csv_write",
               "view", "done"}
    \/ pc = "aborted" /\ error.at \in {"save_json", "save_csv", "run_audit"}

\* save_csv has returned in this run
CsvWritten ==
    \/ pc \in {"view", "done"}
    \/ pc = "aborted" /\ error.at = "run_audit"

RowsOfRun == {i \in DOMAIN db.audits : db.audits[i].timestamp = timestamp}

RowHeld == RowsOfRun # {}

JsonHeld == json_file.complete /\ json_file.doc = Some(report)

CsvHeld ==
    /\ csv_file.complete
    /\ csv_file.doc = Some(CsvHeader)
    /\ csv_file.rows = csv_rows(report)

JsonHasNothingOfRun ==
    json_file.doc = None \/ json_file.doc[1].timestamp # timestamp

CsvHasNothingOfRun ==
    \A i \in DOMAIN csv_file.rows : csv_file.rows[i].timestamp # timestamp

\* C5: on every exit of run_audit, the failing ones included, the
\* relational connection is closed with nothing uncommitted and no file
\* handle is left open.
C5_ReleasedOnEveryExit ==
    pc \in {"done", "aborted"} =>
        /\ conn.state # "open"
        /\ ~conn.in_transaction
        /\ conn.pending = <<>>
        /\ handles = {}

\* C6 as stated: a failing sink write aborts the run, no later step runs,
\* and no sink holds the run's report while another does not.
C6_NoPartialReport ==
    PersistenceAbort =>
        /\ stdout = <<>>
        /\ RowHeld <=> JsonHeld
        /\ JsonHeld <=> CsvHeld

\* C6 as amended: a failing sink write aborts the run for good (nothing but
\* a new invocation follows, so the write is not attempted again and no later
\* step runs), each sink changes only in its own step, and there is no
\* rollback: the sinks written before the failing step keep the run's report
\* and the sinks of the later steps hold nothing of it.
C6_FatalNoRetryNoRollback ==
    /\ [](PersistenceAbort =>
            /\ stdout = <<>>
            /\ Cardinality(RowsOfRun) <= 1
            /\ error.at \in {"init_db", "save_sqlite"} =>
                  /\ JsonHasNothingOfRun
                  /\ CsvHasNothingOfRun
            /\ error.at = "save_json" =>
                  /\ RowHeld
                  /\ CsvHasNothingOfRun
            /\ error.at = "save_csv" =>
                  /\ RowHeld
                  /\ JsonHeld)
    /\ [][/\ pc = "aborted" => (pc' = "start" /\ UNCHANGED Sinks)
          /\ db' # db => pc \in {"init_db", "init_db_create", "save_sqlite_commit"}
          /\ json_file' # json_file => pc \in {"save_json", "save_json_dump"}
          /\ csv_file' # csv_file => pc \in {"save_csv", "save_csv_write"}
          /\ stdout' # stdout => pc \in {"view", "done", "aborted"}]_vars

C6_Witness ==
    /\ pc = "aborted"
    /\ error.at = "save_json"
    /\ now = 2
    /\ Len(db.audits) = 2
    /\ RowHeld
    /\ json_file.doc # None
    /\ ~json_file.complete
    /\ csv_file.complete

\* tags joined by "," from the right
RECURSIVE JoinedTags(_)
JoinedTags(tags) ==
    IF tags = <<>> THEN ""
    ELSE IF Len(tags) = 1 THEN tags[1]
    ELSE JoinedTags(SubSeq(tags, 1, Len(tags) - 1)) \o "," \o tags[Len(tags)]

\* C7: the audits table is append-only; the one step of a run that returns
\* from save_sqlite adds exactly one row, whose risk_level is the run's risk
\* tags joined by "," in classifier order, and no other step changes the rows.
C7_AppendOneRowPerRun ==
    [][/\ Len(db'.audits) >= Len(db.audits)
       /\ SubSeq(db'.audits, 1, Len(db.audits)) = db.audits
       /\ (pc = "save_sqlite_commit" /\ pc' = "save_json") =>
             /\ Len(db'.audits) = Len(db.audits) + 1
             /\ db'.audits[Len(db'.audits)].risk_level = JoinedTags(risk)
             /\ db'.audits[Len(db'.audits)].timestamp = timestamp
       /\ ~(pc = "save_sqlite_commit" /\ pc' = "save_json") =>
             db'.audits = db.audits
       /\ pc' = "done" => Cardinality(RowsOfRun') = 1]_vars

C7_Witness ==
    /\ pc = "done"
    /\ Len(db.audits) = 2
    /\ db.audits[1].timestamp = 1
    /\ db.audits[1].risk_level = "DISK_CRITICAL:/var"
    /\ db.audits[2].timestamp = 2
    /\ db.audits[2].risk_level = "RAM_CRITICAL,SWAP_CRITICAL,DISK_CRITICAL:/var"

Column(row, m) ==
    CASE m = "/"     -> row.disk_root_pct
      [] m = "/var"  -> row.disk_var_pct
      [] m = "/home" -> row.disk_home_pct

\* C8: a mount that does not resolve yields the error marker and nothing
\* else, no risk tag, no disk recommendation, no CSV row, a null relational
\* column and no line on the terminal; the mounts that resolve are processed
\* as usual; and the run is never ended by anything but a failing log query
\* or sink write, and when it is done the summary is printed to its end.
C8_MissingMountTolerated ==
    /\ \A m \in Mounts :
          LET missing == fs[m] = Absent
          IN  /\ pc # "start" =>
                    /\ In(m, disks.keys)
                    /\ missing => disks.data[m] = MountNotFound
                    /\ ~missing =>
                          /\ DOMAIN disks.data[m] = {"total_gb", "used_gb", "used_pct"}
                          /\ disks.data[m].used_pct = fs[m].percent
              /\ ReportBuilt =>
                    /\ In(DiskTag(m), report.risk_level)
                          <=> (~missing /\ fs[m].percent >= 80 * PctUnit)
                    /\ In(m, report.recommendations.disk_recommendations.keys)
                          <=> ~missing
              /\ Committed =>
                    /\ RowHeld
                    /\ \A i \in RowsOfRun :
                          Column(db.audits[i], m) =
                              IF missing THEN None ELSE Some(fs[m].percent)
              /\ CsvWritten =>
                    Cardinality({i \in DOMAIN csv_file.rows :
                                    csv_file.rows[i].metric = "disk_used_pct:" \o m})
                        = IF missing THEN 0 ELSE 1
              /\ pc = "done" =>
                    Cardinality({i \in DOMAIN stdout :
                                    /\ stdout[i].section = "Disco"
                                    /\ stdout[i].mount = m})
                        = IF missing THEN 0 ELSE 1
    /\ pc = "aborted" =>
          /\ error.exc \in {"FileNotFoundError", "sqlite3.OperationalError", "OSError"}
          /\ error.at # "run_audit"
    /\ pc = "done" =>
          /\ JsonHeld
          /\ CsvHeld
          /\ stdout # <<>>
          /\ stdout[Len(stdout)].section = "Relatório salvo"

C8_Witness ==
    /\ pc = "done"
    /\ fs["/home"] = Absent
    /\ fs["/"] # Absent
    /\ fs["/var"] # Absent
    /\ fs["/var"].percent >= 80 * PctUnit
    /\ report.risk_level = <<"DISK_CRITICAL:/var">>

====
